---- MODULE Spec2Model ----
(***************************************************************************)
(* Model of the MCP relay server (server/src/server.ts and its boilerplate *)
(* twin): the session table, the HTTP request listener with its routes,    *)
(* the stream-open handshake, the addressed POST and the transport         *)
(* callbacks.  Node runs one listener or callback at a time, so every      *)
(* action is the code between two suspension points (await).               *)
(***************************************************************************)
EXTENDS Integers, FiniteSets, Sequences, TLC

\* ------------------------------------------------------------------------
\* Bounds of the model
\* ------------------------------------------------------------------------
\* HTTP requests the server receives in one run, of whatever kind
MaxReqs == 3

Slots == 1..MaxReqs

\* Longest message given to show-todo
MaxMsgLen == 2

\* Longest value of the PORT environment variable
MaxPortLen == 3

\* Invocations of the hook's callTool in one run
MaxCalls == 3

Calls == 1..MaxCalls

\* ------------------------------------------------------------------------
\* Program constants
\* ------------------------------------------------------------------------
ssePath == "/mcp"
postPath == "/mcp/messages"

\* The two builds of the server kept in the repository.
Builds == {"server", "boilerplate"}

Methods == {"GET", "POST", "OPTIONS", "DELETE"}
Paths == {ssePath, postPath, "/other"}
\* The requests the listener is given: <<method, path>>; the path "" stands
\* for a request without url (req.url undefined)
Requests == (Methods \X Paths) \cup {<<"GET", "">>}

\* url.searchParams.get("sessionId"): <<>> is null, <<s>> the string s
Params == {<<>>, <<"">>} \cup {<<ToString(n)>> : n \in Slots}

\* ------------------------------------------------------------------------
\* Map<string, SessionRecord>
\* ------------------------------------------------------------------------
\* Mutant: a set that is not made
MapSetDeferred(m, k, v) == m

\* Mutant: a set that forgets the other keys
MapSetAlone(m, k, v) == [x \in {k} |-> v]

MapSet(m, k, v) == [x \in DOMAIN m \cup {k} |-> IF x = k THEN v ELSE m[x]]

\* Mutant: a delete that wrecks the table when the key is absent
MapDeleteStrict(m, k) ==
    IF k \in DOMAIN m THEN [x \in DOMAIN m \ {k} |-> m[x]]
    ELSE [x \in {} |-> 0]

MapDelete(m, k) == [x \in DOMAIN m \ {k} |-> m[x]]

\* undefined is <<>>, a record r is <<r>>
MapGet(m, k) == IF k \in DOMAIN m THEN <<m[k]>> ELSE <<>>

EmptyMap == [x \in {} |-> 0]

\* ------------------------------------------------------------------------
\* The server port
\* ------------------------------------------------------------------------
DefaultPort == 8000

\* A JavaScript number: a finite value, NaN, Infinity or -Infinity
Finite(n) == [kind |-> "finite", val |-> n]

NaN == [kind |-> "nan", val |-> 0]

PosInfinity == [kind |-> "inf", val |-> 1]

NegInfinity == [kind |-> "inf", val |-> 0 - 1]

\* Number.isFinite
NumberIsFinite(x) == x.kind = "finite"

\* A value of PORT is a sequence of these; "Infinity" stands for the eight
\* characters of the word
PortChars == {"8", "0", " ", "-", "x", "Infinity"}

PortStrings == UNION {[1..n -> PortChars] : n \in 0..MaxPortLen}

\* process.env.PORT: <<>> when unset, <<s>> when set to s
Envs == {<<>>} \cup {<<s>> : s \in PortStrings}

RECURSIVE TrimStart(_)
TrimStart(s) ==
    IF s # <<>> /\ Head(s) = " " THEN TrimStart(Tail(s)) ELSE s

RECURSIVE TrimEnd(_)
TrimEnd(s) ==
    IF s # <<>> /\ s[Len(s)] = " "
    THEN TrimEnd(SubSeq(s, 1, Len(s) - 1)) ELSE s

IsDigits(t) == t # <<>> /\ \A i \in 1..Len(t) : t[i] \in {"8", "0"}

DigitOf(ch) == IF ch = "8" THEN 8 ELSE 0

RECURSIVE DigitsValue(_, _)
DigitsValue(t, base) ==
    IF t = <<>> THEN 0
    ELSE DigitsValue(SubSeq(t, 1, Len(t) - 1), base) * base
         + DigitOf(t[Len(t)])

\* Number(s) of a string: white space around is dropped, the empty string
\* is 0, then a decimal literal with an optional sign, a hexadecimal
\* literal without sign or a signed Infinity; anything else is NaN
StringToNumber(s) ==
    LET t == TrimEnd(TrimStart(s)) IN
    IF t = <<>> THEN Finite(0)
    ELSE IF t = <<"Infinity">> THEN PosInfinity
    ELSE IF t = <<"-", "Infinity">> THEN NegInfinity
    ELSE IF IsDigits(t) THEN Finite(DigitsValue(t, 10))
    ELSE IF Head(t) = "-" /\ IsDigits(Tail(t))
         THEN Finite(0 - DigitsValue(Tail(t), 10))
    ELSE IF Len(t) > 2 /\ t[1] = "0" /\ t[2] = "x"
                       /\ IsDigits(SubSeq(t, 3, Len(t)))
         THEN Finite(DigitsValue(SubSeq(t, 3, Len(t)), 16))
    ELSE NaN

\* portEnv = Number(process.env.PORT ?? 8000)
PortEnv(e) == IF e = <<>> THEN Finite(DefaultPort) ELSE StringToNumber(e[1])

\* Mutant: the port is taken as it is read
PortUnchecked(e) == PortEnv(e)

\* port = Number.isFinite(portEnv) ? portEnv : 8000
Port(e) ==
    IF NumberIsFinite(PortEnv(e)) THEN PortEnv(e) ELSE Finite(DefaultPort)

\* ------------------------------------------------------------------------
\* State
\* ------------------------------------------------------------------------
VARIABLES
    build,      \* which of the two builds of the server runs
    sessions,   \* the session table: sessionId -> [server, transport]
    minted,     \* number of session ids the transport layer has generated
    stream,     \* per stream-open request: position of handleSseRequest,
                \* its response, its session id and the callbacks fired
    post,       \* per POST to the message path: position of
                \* handlePostMessage and its response
    plain,      \* the other requests (preflight, unrouted, no url)
    errored,    \* the stream whose transport reported an error last, 0
                \* when none did ("SSE transport error" on the console)
    hangup,     \* per stream: whether its underlying connection is open,
                \* closed, or closed with the close callback delivered
    tableOp,    \* the last operation made on the table taken alone
    lastPut,    \* per id, the record of the last sessions.set of the id
                \* with no sessions.delete of it since (history)
    call,       \* the show-todo invocation made through a session
    env,        \* process.env.PORT: <<>> when unset, <<s>> the string s
    port,       \* the port the server listens on, <<>> before it is
                \* computed
    isLoading,  \* the isLoading state of the useCallTool hook
    calls       \* per invocation of the hook's callTool: where it is

\* the variables of the table taken alone and of the tool invocation
aside == <<tableOp, call>>

\* the variables of the port and of the useCallTool hook
apart == <<env, port, isLoading, calls>>

vars == <<build, sessions, minted, stream, post, plain, errored, hangup,
          lastPut, aside, apart>>

NoStream == [phase |-> "NONE", sid |-> "", status |-> 0, body |-> "",
             headers |-> {}, closeFired |-> FALSE, closeRejected |-> FALSE]

NoPost == [pc |-> "none", param |-> <<>>, status |-> 0, body |-> "",
           headers |-> {}, looked |-> FALSE, target |-> 0,
           failed |-> FALSE, headersSent |-> FALSE, issued |-> FALSE]

NoPlain == [method |-> "", url |-> "", status |-> 0, body |-> "",
            headers |-> {}]

\* The session ids the transport layer can generate within the bound
Ids == {ToString(n) : n \in Slots}

NoOp == [name |-> "none", id |-> "", result |-> <<>>, existed |-> FALSE]

NoCall == [post |-> 0, session |-> "", message |-> <<>>, userId |-> <<>>,
           absent |-> FALSE, ran |-> FALSE, result |-> <<>>]

Init ==
    /\ build \in Builds
    /\ sessions = EmptyMap
    /\ minted = 0
    /\ stream = [c \in Slots |-> NoStream]
    /\ post = [p \in Slots |-> NoPost]
    /\ plain = [q \in Slots |-> NoPlain]
    /\ errored = 0
    /\ hangup = [c \in Slots |-> "open"]
    /\ tableOp = NoOp
    /\ lastPut = [id \in Ids |-> <<>>]
    /\ call = NoCall
    /\ env = <<>>
    /\ port = <<Port(env)>>
    /\ isLoading = FALSE
    /\ calls = [k \in Calls |-> "idle"]

\* Requests received so far
Received ==
    Cardinality({c \in Slots : stream[c] # NoStream})
    + Cardinality({p \in Slots : post[p] # NoPost})
    + Cardinality({q \in Slots : plain[q] # NoPlain})

\* ------------------------------------------------------------------------
\* The request listener's routing
\* ------------------------------------------------------------------------
\* Mutant: OPTIONS is a preflight on whatever path
RouteOptionsAnywhere(method, url) ==
    IF url = "" THEN "missing-url"
    ELSE IF method = "OPTIONS" THEN "preflight"
    ELSE IF method = "GET" /\ url = ssePath THEN "sse"
    ELSE IF method = "POST" /\ url = postPath THEN "post"
    ELSE "not-found"

Route(method, url) ==
    IF url = "" THEN "missing-url"
    ELSE IF method = "OPTIONS" /\ (url = ssePath \/ url = postPath)
         THEN "preflight"
    ELSE IF method = "GET" /\ url = ssePath THEN "sse"
    ELSE IF method = "POST" /\ url = postPath THEN "post"
    ELSE "not-found"

CorsOrigin == "Access-Control-Allow-Origin: *"
CorsMethods == "Access-Control-Allow-Methods: GET, POST, OPTIONS"
CorsHeaders == "Access-Control-Allow-Headers: content-type"

\* ------------------------------------------------------------------------
\* handleSseRequest
\* ------------------------------------------------------------------------
\* Mutant: an identifier that is not fresh
SessionIdFixed(n) == ToString(1)

\* transport.sessionId: the transport layer draws a fresh identifier for
\* every transport it constructs; n identifiers were drawn before.
SessionId(n) == ToString(n + 1)

\* Mutant: one handler instance shared by every session
createServerInstanceShared(c) == 1

\* createServerInstance() / new SSEServerTransport(): one new object per
\* call, named after the request that made it.
createServerInstance(c) == c

NewTransport(c) == c

\* Mutant: onclose empties the whole table
OnCloseClears(m, sid) == EmptyMap

\* Mutant: onclose forgets the delete
OnCloseKeeps(m, sid) == m

\* transport.onclose of the request with session id sid
OnClose(m, sid) == MapDelete(m, sid)

\* Mutant: onerror tears the session down
OnErrorDeletes(m, sid) == MapDelete(m, sid)

\* transport.onerror only writes to the console
OnError(m, sid) == m

\* Mutant: the cleanup empties the whole table
ConnectFailedClears(m, sid) == EmptyMap

\* Mutant: the cleanup forgets the delete
ConnectFailedKeeps(m, sid) == m

\* the catch block around server.connect
ConnectFailed(m, sid) == MapDelete(m, sid)

\* The callbacks exist once handleSseRequest has assigned them.
Installed(c) == stream[c].phase \in {"OPENING", "OPEN", "FAILED"}

\* The next request takes the first unused slot of its kind.
NextSlot(f, i, idle) ==
    /\ Received < MaxReqs
    /\ f[i] = idle
    /\ IF i = 1 THEN TRUE ELSE f[i - 1] # idle

\* GET /mcp up to the await of server.connect.  loadWidgetAssets throws
\* when the built assets are missing; createServerInstance is called
\* outside the try block, so the rejection leaves handleSseRequest and the
\* listener.
HandleSseRequest(c) ==
    /\ NextSlot(stream, c, NoStream)
    /\ \E rq \in Requests, assetsBuilt \in BOOLEAN :
        /\ Route(rq[1], rq[2]) = "sse"
        /\ IF ~assetsBuilt
           THEN /\ stream' = [stream EXCEPT ![c] =
                       [@ EXCEPT !.phase = "ESCAPED",
                                 !.headers = {CorsOrigin}]]
                /\ UNCHANGED <<sessions, minted, lastPut>>
           ELSE LET sid == SessionId(minted) IN
                /\ sessions' = MapSet(sessions, sid,
                       [server |-> createServerInstance(c),
                        transport |-> NewTransport(c)])
                /\ lastPut' = [lastPut EXCEPT ![sid] =
                       <<[server |-> createServerInstance(c),
                          transport |-> NewTransport(c)]>>]
                /\ minted' = minted + 1
                /\ stream' = [stream EXCEPT ![c] =
                       [@ EXCEPT !.phase = "OPENING", !.sid = sid,
                                 !.headers = {CorsOrigin}]]
    /\ UNCHANGED <<build, post, plain, errored, hangup, aside, apart>>

\* server.connect(transport) resolves: the event stream is open and
\* handleSseRequest returns.
ConnectResolve(c) ==
    /\ stream[c].phase = "OPENING"
    /\ stream' = [stream EXCEPT ![c] =
           [@ EXCEPT !.phase = "OPEN", !.status = 200]]
    /\ UNCHANGED <<build, sessions, minted, post, plain, errored,
                   hangup, lastPut, aside, apart>>

\* server.connect(transport) rejects: the catch block.
ConnectReject(c) ==
    /\ stream[c].phase = "OPENING"
    /\ \E headersSent \in BOOLEAN :
        stream' = [stream EXCEPT ![c] =
           [@ EXCEPT !.phase = "FAILED",
                     !.status = IF headersSent THEN 200 ELSE 500,
                     !.body = IF headersSent THEN ""
                              ELSE "Failed to establish SSE connection"]]
    /\ sessions' = ConnectFailed(sessions, stream[c].sid)
    /\ lastPut' = [lastPut EXCEPT ![stream[c].sid] = <<>>]
    /\ UNCHANGED <<build, minted, post, plain, errored, hangup, aside, apart>>

\* The transport fires onclose, because the underlying connection closed
\* or for a reason of its own.  The boilerplate build also awaits
\* server.close() there, a call back into the transport that is being
\* closed; whether it resolves or rejects is the SDK's, and a rejection is
\* caught by nobody.
TransportClose(c) ==
    /\ Installed(c)
    /\ \E closeOk \in BOOLEAN :
        /\ (build = "server") => closeOk
        /\ stream' = [stream EXCEPT ![c] =
               [@ EXCEPT !.closeFired = TRUE,
                         !.closeRejected = @ \/ ~closeOk]]
    /\ sessions' = OnClose(sessions, stream[c].sid)
    /\ lastPut' = [lastPut EXCEPT ![stream[c].sid] = <<>>]
    /\ hangup' = [hangup EXCEPT ![c] =
           IF @ = "closed" THEN "notified" ELSE @]
    /\ UNCHANGED <<build, minted, post, plain, errored, aside, apart>>

\* The transport fires onerror.
TransportError(c) ==
    /\ Installed(c)
    /\ errored' = c
    /\ sessions' = OnError(sessions, stream[c].sid)
    /\ UNCHANGED <<build, minted, stream, post, plain,
                   hangup, lastPut, aside, apart>>

\* ------------------------------------------------------------------------
\* handlePostMessage
\* ------------------------------------------------------------------------
\* Mutant: only the absent parameter counts as missing
MissingSessionIdNullOnly(param) == param = <<>>

\* Mutant: only the empty string counts as missing
MissingSessionIdEmptyOnly(param) == param = <<"">>

\* !sessionId: null and the empty string are both falsy
MissingSessionId(param) == IF param = <<>> THEN TRUE ELSE param[1] = ""

\* Mutant: the lookup ignores the key
LookupFirst(m, param) ==
    IF DOMAIN m = {} THEN <<>> ELSE <<m[CHOOSE k \in DOMAIN m : TRUE]>>

\* sessions.get(sessionId); a key that is no string of the table finds
\* nothing
Lookup(m, param) == IF param = <<>> THEN <<>> ELSE MapGet(m, param[1])

\* res.writeHead(400).end("Missing sessionId query parameter")
MissingSessionIdResponse ==
    [status |-> 400, body |-> "Missing sessionId query parameter"]

\* Mutant: the unknown session is reported as a bad request
UnknownSessionAs400 == [status |-> 400, body |-> "Unknown session"]

\* res.writeHead(404).end("Unknown session")
UnknownSessionResponse == [status |-> 404, body |-> "Unknown session"]

\* Mutant: the catch block writes no response
FailureStatusKeeps(written) == written

\* the catch block around transport.handlePostMessage: written is the
\* status of the response the transport began before it threw, 0 when
\* res.headersSent is false
FailureStatus(written) == IF written = 0 THEN 500 ELSE written

\* Statuses the transport may have written itself before it throws
TransportWrote == {0, 400, 500}

\* Whether the transport layer has ever generated this id (bookkeeping)
Issued(param) ==
    param # <<>> /\ \E n \in 0..(minted - 1) : param[1] = ToString(n + 1)

\* POST /mcp/messages up to the await of transport.handlePostMessage.
HandlePostMessage(p) ==
    /\ NextSlot(post, p, NoPost)
    /\ \E rq \in Requests, param \in Params :
        /\ Route(rq[1], rq[2]) = "post"
        /\ LET new == [NoPost EXCEPT !.param = param,
                                     !.headers = {CorsOrigin, CorsHeaders},
                                     !.issued = Issued(param)]
           IN
           IF MissingSessionId(param)
           THEN post' = [post EXCEPT ![p] =
                    [new EXCEPT !.pc = "done",
                                !.status = MissingSessionIdResponse.status,
                                !.body = MissingSessionIdResponse.body]]
           ELSE LET session == Lookup(sessions, param) IN
                IF session = <<>>
                THEN post' = [post EXCEPT ![p] =
                         [new EXCEPT !.pc = "done", !.looked = TRUE,
                                     !.status = UnknownSessionResponse.status,
                                     !.body = UnknownSessionResponse.body]]
                ELSE post' = [post EXCEPT ![p] =
                         [new EXCEPT !.pc = "forwarded", !.looked = TRUE,
                                     !.target = session[1].transport]]
    /\ UNCHANGED <<build, sessions, minted, stream, plain, errored,
                   hangup, lastPut, aside, apart>>

\* transport.handlePostMessage resolves: the transport has written the
\* acknowledgement itself.
PostResolve(p) ==
    /\ post[p].pc = "forwarded"
    /\ post' = [post EXCEPT ![p] =
           [@ EXCEPT !.pc = "done", !.status = 202, !.body = "Accepted",
                     !.headersSent = TRUE]]
    /\ UNCHANGED <<build, sessions, minted, stream, plain, errored,
                   hangup, lastPut, aside, apart>>

\* transport.handlePostMessage rejects: the catch block.
PostReject(p) ==
    /\ post[p].pc = "forwarded"
    /\ \E written \in TransportWrote :
        post' = [post EXCEPT ![p] =
           [@ EXCEPT !.pc = "done", !.failed = TRUE,
                     !.headersSent = (written # 0),
                     !.status = FailureStatus(written),
                     !.body = IF written = 0 THEN "Failed to process message"
                              ELSE ""]]
    /\ UNCHANGED <<build, sessions, minted, stream, plain, errored,
                   hangup, lastPut, aside, apart>>

\* ------------------------------------------------------------------------
\* The routes that touch no session
\* ------------------------------------------------------------------------
PlainRequest(q, route, status, body, headers) ==
    /\ NextSlot(plain, q, NoPlain)
    /\ \E rq \in Requests :
        /\ Route(rq[1], rq[2]) = route
        /\ plain' = [plain EXCEPT ![q] =
               [method |-> rq[1], url |-> rq[2], status |-> status,
                body |-> body, headers |-> headers]]
    /\ UNCHANGED <<build, sessions, minted, stream, post, errored,
                   hangup, lastPut, aside, apart>>

MissingUrl(q) == PlainRequest(q, "missing-url", 400, "Missing URL", {})

\* Mutant: the preflight answer does not name the methods
PreflightNoMethods(q) ==
    PlainRequest(q, "preflight", 204, "", {CorsOrigin, CorsHeaders})

Preflight(q) ==
    PlainRequest(q, "preflight", 204, "",
                 {CorsOrigin, CorsMethods, CorsHeaders})

NotFound(q) == PlainRequest(q, "not-found", 404, "Not Found", {})

\* ------------------------------------------------------------------------
\* Specification
\* ------------------------------------------------------------------------
Next ==
    \/ \E c \in Slots : HandleSseRequest(c)
    \/ \E c \in Slots : ConnectResolve(c)
    \/ \E c \in Slots : ConnectReject(c)
    \/ \E c \in Slots : TransportClose(c)
    \/ \E c \in Slots : TransportError(c)
    \/ \E p \in Slots : HandlePostMessage(p)
    \/ \E p \in Slots : PostResolve(p)
    \/ \E p \in Slots : PostReject(p)
    \/ \E q \in Slots : MissingUrl(q)
    \/ \E q \in Slots : Preflight(q)
    \/ \E q \in Slots : NotFound(q)

Spec == Init /\ [][Next]_vars

TypeOK ==
    /\ build \in Builds
    /\ minted \in 0..MaxReqs
    /\ DOMAIN sessions \subseteq {ToString(n) : n \in Slots}

\* ------------------------------------------------------------------------
\* The underlying connection of a stream closes
\* ------------------------------------------------------------------------
\* The client or the network closes the connection the transport of stream
\* c was constructed over; the server learns of it through the close
\* callback only.
ConnectionClosed(c) ==
    /\ stream[c].phase \in {"OPENING", "OPEN"}
    /\ ~stream[c].closeFired
    /\ hangup[c] = "open"
    /\ hangup' = [hangup EXCEPT ![c] = "closed"]
    /\ UNCHANGED <<build, sessions, minted, stream, post, plain, errored,
                   lastPut, aside, apart>>

\* The close callback that a closed connection has made due
Notify(c) == hangup[c] = "closed" /\ TransportClose(c)

NextLive ==
    \/ Next
    \/ \E c \in Slots : ConnectionClosed(c)

\* The event loop runs a callback that is due: a closed connection gets its
\* close callback.
SpecLive ==
    Init /\ [][NextLive]_vars /\ \A c \in Slots : WF_vars(Notify(c))

\* ------------------------------------------------------------------------
\* The session table taken alone: set, get and delete in any order, on
\* any id, with any record
\* ------------------------------------------------------------------------
SessionRecords ==
    {[server |-> createServerInstance(c), transport |-> NewTransport(c)] :
        c \in Slots}

\* sessions.set(id, s)
SessionsSet(id, s) ==
    /\ sessions' = MapSet(sessions, id, s)
    /\ lastPut' = [lastPut EXCEPT ![id] = <<s>>]
    /\ tableOp' = [name |-> "set", id |-> id, result |-> <<>>,
                   existed |-> id \in DOMAIN sessions]
    /\ UNCHANGED <<build, minted, stream, post, plain, errored, hangup,
                   call, apart>>

\* sessions.get(id)
SessionsGet(id) ==
    /\ tableOp' = [name |-> "get", id |-> id,
                   result |-> MapGet(sessions, id),
                   existed |-> id \in DOMAIN sessions]
    /\ UNCHANGED <<build, sessions, minted, stream, post, plain, errored,
                   hangup, lastPut, call, apart>>

\* sessions.delete(id)
SessionsDelete(id) ==
    /\ sessions' = MapDelete(sessions, id)
    /\ lastPut' = [lastPut EXCEPT ![id] = <<>>]
    /\ tableOp' = [name |-> "delete", id |-> id, result |-> <<>>,
                   existed |-> id \in DOMAIN sessions]
    /\ UNCHANGED <<build, minted, stream, post, plain, errored, hangup,
                   call, apart>>

NextTable ==
    \/ \E id \in Ids, s \in SessionRecords : SessionsSet(id, s)
    \/ \E id \in Ids : SessionsGet(id)
    \/ \E id \in Ids : SessionsDelete(id)

SpecTable == Init /\ [][NextTable]_vars

\* ------------------------------------------------------------------------
\* The show-todo tool, invoked through a session
\* ------------------------------------------------------------------------
\* A string is the sequence of its characters.
Chars == {"h", "i"}

Messages == UNION {[1..n -> Chars] : n \in 0..MaxMsgLen}

\* the optional userId: <<>> when absent, <<u>> when given
UserIds == {<<>>, <<"">>, <<"u1">>}

\* Mutant: the handler answers with an empty message
ShowTodoHandlerBlank(b, message, userId) ==
    [structuredContent |-> [message |-> <<>>]]

\* The handler registered for show-todo, in build b
ShowTodoHandler(b, message, userId) ==
    IF b = "server"
    THEN [content |-> <<"Rendered a todo list! ">> \o message,
          structuredContent |->
              [lists |-> <<"main-list">>,
               message |-> message,
               userId |-> IF userId = <<>> \/ userId = <<"">>
                          THEN "anonymous" ELSE userId[1]],
          meta |-> [messageLen |-> Len(message), totalTodos |-> 3,
                    completedTodos |-> 1]]
    ELSE [content |-> <<"Rendered a todo list!">>,
          structuredContent |-> [message |-> message],
          meta |-> [messageLen |-> Len(message)]]

\* The arguments of a call: each field <<>> when absent, <<v>> when given
Args == [message : {<<>>} \cup {<<m>> : m \in Messages}, userId : UserIds]

\* Mutant: a schema in which message is optional
InputSchemaOptional(b) == [message |-> "optional", userId |-> "optional"]

\* inputSchema of show-todo in build b: z.string() is a required field,
\* z.string().optional() an optional one
InputSchema(b) ==
    IF b = "server"
    THEN [message |-> "required", userId |-> "optional"]
    ELSE [message |-> "required"]

\* The required fields of the schema that the arguments lack
Missing(schema, args) ==
    {f \in DOMAIN schema : schema[f] = "required" /\ args[f] = <<>>}

\* The answer to a call whose arguments do not satisfy the schema
InvalidInput(missing) ==
    [isError |-> TRUE, code |-> "InvalidParams", missing |-> missing]

\* The message of POST p, handed to the transport of an open stream, is a
\* call of show-todo; the server instance of the session checks the
\* arguments against the schema, runs the handler when they satisfy it,
\* and the result goes out on the session's stream.
ShowTodo(p) ==
    /\ call = NoCall
    /\ post[p].pc \in {"forwarded", "done"}
    /\ post[p].target # 0
    /\ ~post[p].failed
    /\ stream[post[p].target].phase = "OPEN"
    /\ \E args \in Args :
        LET missing == Missing(InputSchema(build), args)
            message == IF args.message = <<>> THEN <<>> ELSE args.message[1]
        IN
        call' = [post |-> p, session |-> post[p].param[1],
                 message |-> message, userId |-> args.userId,
                 absent |-> (args.message = <<>>),
                 ran |-> (missing = {}),
                 result |-> IF missing = {}
                            THEN ShowTodoHandler(build, message, args.userId)
                            ELSE InvalidInput(missing)]
    /\ UNCHANGED <<build, sessions, minted, stream, post, plain, errored,
                   hangup, lastPut, tableOp, apart>>

NextTool ==
    \/ \E c \in Slots : HandleSseRequest(c)
    \/ \E c \in Slots : ConnectResolve(c)
    \/ \E p \in Slots : HandlePostMessage(p)
    \/ \E p \in Slots : PostResolve(p)
    \/ \E p \in Slots : ShowTodo(p)

SpecTool == Init /\ [][NextTool]_vars

\* ------------------------------------------------------------------------
\* The server started with any value of PORT
\* ------------------------------------------------------------------------
\* the variables of the relay
relay == <<build, sessions, minted, stream, post, plain, errored, hangup,
           lastPut>>

InitPort ==
    /\ build \in Builds
    /\ sessions = EmptyMap
    /\ minted = 0
    /\ stream = [c \in Slots |-> NoStream]
    /\ post = [p \in Slots |-> NoPost]
    /\ plain = [q \in Slots |-> NoPlain]
    /\ errored = 0
    /\ hangup = [c \in Slots |-> "open"]
    /\ tableOp = NoOp
    /\ lastPut = [id \in Ids |-> <<>>]
    /\ call = NoCall
    /\ env \in Envs
    /\ port = <<>>
    /\ isLoading = FALSE
    /\ calls = [k \in Calls |-> "idle"]

\* the module is loaded: portEnv and port are computed
ReadPort ==
    /\ port = <<>>
    /\ port' = <<Port(env)>>
    /\ UNCHANGED <<relay, aside, env, isLoading, calls>>

NextPort == ReadPort

SpecPort == InitPort /\ [][NextPort]_vars

\* ------------------------------------------------------------------------
\* The useCallTool hook (web/src/hooks/useOpenAI.ts)
\* ------------------------------------------------------------------------
\* callTool(name, args) is invoked, up to its await.  Without
\* window.openai.callTool it throws before it touches isLoading.
CallTool(k) ==
    /\ calls[k] = "idle"
    /\ \E available \in BOOLEAN :
        IF ~available
        THEN /\ calls' = [calls EXCEPT ![k] = "thrown"]
             /\ UNCHANGED isLoading
        ELSE /\ calls' = [calls EXCEPT ![k] = "inflight"]
             /\ isLoading' = TRUE
    /\ UNCHANGED <<relay, aside, env, port>>

\* window.openai.callTool resolves: finally, then the result is returned
HostResolves(k) ==
    /\ calls[k] = "inflight"
    /\ calls' = [calls EXCEPT ![k] = "resolved"]
    /\ isLoading' = FALSE
    /\ UNCHANGED <<relay, aside, env, port>>

\* window.openai.callTool rejects: finally, then the rejection goes on to
\* the caller
HostRejects(k) ==
    /\ calls[k] = "inflight"
    /\ calls' = [calls EXCEPT ![k] = "rejected"]
    /\ isLoading' = FALSE
    /\ UNCHANGED <<relay, aside, env, port>>

NextHook ==
    \/ \E k \in Calls : CallTool(k)
    \/ \E k \in Calls : HostResolves(k)
    \/ \E k \in Calls : HostRejects(k)

SpecHook == Init /\ [][NextHook]_vars

\* ------------------------------------------------------------------------
\* Vocabulary of the properties
\* ------------------------------------------------------------------------
InTable(c) == stream[c].sid \in DOMAIN sessions

\* OPENING -> OPEN -> CLOSED, read off the handshake and the callbacks
ConnState(c) ==
    IF stream[c].phase \in {"NONE", "ESCAPED"} THEN "NONE"
    ELSE IF stream[c].closeFired \/ stream[c].phase = "FAILED" THEN "CLOSED"
    ELSE stream[c].phase

Live(c) == ConnState(c) \in {"OPENING", "OPEN"}

\* This step is the listener taking POST request p.
Taken(p) == post[p] = NoPost /\ post'[p] # NoPost

\* This step is the listener answering request q on a route of its own.
Answered(q) == plain[q] = NoPlain /\ plain'[q] # NoPlain

\* ------------------------------------------------------------------------
\* C1: once the close callback of a session has fired, its id is not in
\* the table, and every POST taken afterwards with that id gets 404.
\* ------------------------------------------------------------------------
C1_ClosedSessionIsGone ==
    /\ [](\A c \in Slots : stream[c].closeFired => ~InTable(c))
    /\ [][\A p, c \in Slots :
            (Taken(p) /\ stream[c].closeFired
                      /\ post'[p].param = <<stream[c].sid>>)
            => (post'[p].pc = "done" /\ post'[p].status = 404)]_vars

C1_Witness ==
    \E p, c \in Slots :
        /\ stream[c].phase = "OPEN" /\ stream[c].closeFired
        /\ post[p].param = <<stream[c].sid>> /\ post[p].issued
        /\ post[p].status = 404

C3_TeardownOnceNoThrow ==
    \A c \in Slots :
        /\ ConnState(c) = "CLOSED" => ~InTable(c)
        /\ ~stream[c].closeRejected

\* ------------------------------------------------------------------------
\* C4: a POST carrying the id of a session that is OPEN in the table is
\* handed to the transport of that session and to no other.
\* ------------------------------------------------------------------------
C4_ForwardedToOwnSession ==
    [][\A p, c \in Slots :
        (Taken(p) /\ ConnState(c) = "OPEN" /\ InTable(c)
                  /\ post'[p].param = <<stream[c].sid>>)
        => (post'[p].pc = "forwarded" /\ post'[p].target = c)]_vars

C4_Witness ==
    \E p, c, d \in Slots :
        /\ c # d /\ ConnState(c) = "OPEN" /\ ConnState(d) = "OPEN"
        /\ InTable(c) /\ InTable(d)
        /\ post[p].target = d /\ post[p].param = <<stream[d].sid>>

\* ------------------------------------------------------------------------
\* C5: two POSTs addressed to the same session are never both handed to
\* its transport with neither of them finished.
\* ------------------------------------------------------------------------
C5_OneRequestAtATime ==
    \A p, q \in Slots :
        (p # q /\ post[p].pc = "forwarded" /\ post[q].pc = "forwarded")
        => post[p].target # post[q].target

\* ------------------------------------------------------------------------
\* C6: every failure while handling a request ends in an HTTP status; no
\* rejection leaves the request listener.
\* ------------------------------------------------------------------------
C6_ErrorsCaughtAtRouter ==
    /\ \A c \in Slots : stream[c].phase # "ESCAPED"
    /\ \A c \in Slots : stream[c].phase = "FAILED" => stream[c].status # 0
    /\ \A p \in Slots : post[p].failed => post[p].status # 0

\* ------------------------------------------------------------------------
\* C7: no two live sessions have the same id, and the table holds under
\* each id the record of the session that has this id.
\* ------------------------------------------------------------------------
C7_OneLiveSessionPerId ==
    /\ \A c, d \in Slots :
        (c # d /\ Live(c) /\ Live(d)) => stream[c].sid # stream[d].sid
    /\ \A c \in Slots :
        Live(c) => (InTable(c) /\ sessions[stream[c].sid].transport = c)

C7_Witness ==
    \E c, d \in Slots :
        c # d /\ Live(c) /\ Live(d) /\ Cardinality(DOMAIN sessions) = 2

\* ------------------------------------------------------------------------
\* C8: a POST without sessionId parameter gets 400 with the body naming
\* the missing parameter; nothing is looked up or forwarded and the table
\* is unchanged.
\* ------------------------------------------------------------------------
C8_MissingParameterIs400 ==
    [][\A p \in Slots :
        (Taken(p) /\ post'[p].param = <<>>)
        => /\ post'[p].pc = "done"
           /\ post'[p].status = 400
           /\ post'[p].body = "Missing sessionId query parameter"
           /\ ~post'[p].looked
           /\ post'[p].target = 0
           /\ sessions' = sessions]_vars

C8_Witness ==
    \E p \in Slots :
        /\ post[p].pc = "done" /\ post[p].param = <<>>
        /\ post[p].status = 400 /\ DOMAIN sessions # {}

\* ------------------------------------------------------------------------
\* C9: a POST whose sessionId matches no session in the table gets 404;
\* the handler returns, nothing is forwarded and the table is unchanged.
\* ------------------------------------------------------------------------
C9_UnknownSessionIs404 ==
    [][\A p \in Slots :
        (Taken(p) /\ ~MissingSessionId(post'[p].param)
                  /\ post'[p].param[1] \notin DOMAIN sessions)
        => /\ post'[p].pc = "done"
           /\ post'[p].status = 404
           /\ post'[p].target = 0
           /\ sessions' = sessions]_vars

\* one POST with an id never issued, one with the id of a closed session
C9_Witness ==
    \E p, q \in Slots :
        /\ post[p].status = 404 /\ ~post[p].issued
        /\ post[q].status = 404 /\ post[q].issued

\* ------------------------------------------------------------------------
\* C10 as stated: a POST to an existing session whose handling fails is
\* answered with 500.
\* ------------------------------------------------------------------------
C10_FailureIs500 ==
    \A p \in Slots : post[p].failed => post[p].status = 500

\* C10 amended: when the handling fails the table is left as it is, and
\* the answer is 500 "Failed to process message" unless the transport had
\* already sent response headers, in which case that response stands.
C10_FailureIs500UnlessSent ==
    [][\A p \in Slots :
        (post'[p].failed /\ ~post[p].failed)
        => /\ sessions' = sessions
           /\ post'[p].pc = "done"
           /\ \/ post'[p].headersSent
              \/ /\ post'[p].status = 500
                 /\ post'[p].body = "Failed to process message"]_vars

C10_Witness ==
    \E p, c \in Slots :
        /\ post[p].failed /\ ~post[p].headersSent /\ post[p].status = 500
        /\ post[p].target = c /\ InTable(c)
        /\ Cardinality(DOMAIN sessions) = 2

\* ------------------------------------------------------------------------
\* C11: a session whose stream opened stays in the table, under its id and
\* with its own record, across every step that is not a close or error
\* event of its own stream: POSTs, preflights, unrouted requests, opens,
\* closes and failures of other sessions.
\* ------------------------------------------------------------------------
C11_OpenSessionStays ==
    [][\A c \in Slots :
        (/\ ConnState(c) = "OPEN" /\ InTable(c)
         /\ stream'[c].closeFired = stream[c].closeFired
         /\ ~(errored' = c /\ errored # c))
        => /\ stream[c].sid \in DOMAIN sessions'
           /\ sessions'[stream[c].sid] = sessions[stream[c].sid]]_vars

C11_Witness ==
    \E c, p, q \in Slots :
        /\ ConnState(c) = "OPEN" /\ InTable(c)
        /\ post[p].target = c /\ post[p].pc = "done"
        /\ plain[q] # NoPlain

\* ------------------------------------------------------------------------
\* C12: a stream that opened a session and whose underlying connection
\* has closed eventually is CLOSED with its session out of the table, and
\* once the close callback of the closed connection has run the session is
\* out of the table for good.
\* ------------------------------------------------------------------------
C12_HangupRemovesSession ==
    /\ \A c \in Slots :
          (hangup[c] = "closed") ~> (ConnState(c) = "CLOSED" /\ ~InTable(c))
    /\ [](\A c \in Slots :
            hangup[c] = "notified" => (ConnState(c) = "CLOSED" /\ ~InTable(c)))

\* the connection of an open stream closed and its session went, another
\* session staying
C12_Witness ==
    \E c, d \in Slots :
        /\ hangup[c] = "notified" /\ stream[c].phase = "OPEN" /\ ~InTable(c)
        /\ hangup[d] = "open" /\ ConnState(d) = "OPEN" /\ InTable(d)

\* ------------------------------------------------------------------------
\* C13: the connection state only moves forward, OPENING -> OPEN ->
\* CLOSED; a CLOSED session never comes back into the table, and a session
\* is in the table only while it is OPENING or OPEN.
\* ------------------------------------------------------------------------
C13_ForwardOnly ==
    /\ [](\A c \in Slots :
            (stream[c].sid # "" /\ InTable(c))
            => ConnState(c) \in {"OPENING", "OPEN"})
    /\ [][\A c \in Slots :
            /\ ConnState(c) = "CLOSED"
               => (ConnState(c)' = "CLOSED"
                   /\ stream[c].sid \notin DOMAIN sessions')
            /\ ConnState(c) = "OPEN"
               => ConnState(c)' \in {"OPEN", "CLOSED"}
            /\ ConnState(c) = "OPENING"
               => ConnState(c)' \in {"OPENING", "OPEN", "CLOSED"}]_vars

C13_Witness ==
    \E c, d \in Slots :
        /\ stream[c].phase = "OPEN" /\ stream[c].closeFired /\ ~InTable(c)
        /\ stream[d].phase = "FAILED" /\ ~InTable(d)

\* ------------------------------------------------------------------------
\* C14: no two entries of the table share a handler instance or a
\* transport.
\* ------------------------------------------------------------------------
C14_FreshHandlerAndTransport ==
    \A j, k \in DOMAIN sessions :
        j # k => /\ sessions[j].server # sessions[k].server
                 /\ sessions[j].transport # sessions[k].transport

C14_Witness ==
    \E j, k \in DOMAIN sessions :
        j # k /\ sessions[j].server # sessions[k].server

\* ------------------------------------------------------------------------
\* C17: however the stream-opens, addressed POSTs and callbacks of the
\* sessions interleave, the table holds what its sets and deletes taken
\* one after the other in the order they ran leave in it, and every
\* lookup of a POST returns what that order gives: the record last set
\* under the id and not deleted since, or nothing.
\* ------------------------------------------------------------------------
C17_TableIsSequential ==
    /\ [](\A id \in Ids : MapGet(sessions, id) = lastPut[id])
    /\ [][\A p \in Slots :
            (Taken(p) /\ post'[p].looked)
            => LET found == lastPut[post'[p].param[1]] IN
               IF found = <<>>
               THEN post'[p].pc = "done" /\ post'[p].target = 0
               ELSE /\ post'[p].pc = "forwarded"
                    /\ post'[p].target = found[1].transport]_vars

\* two sessions at once: the close callback of one ran while a POST handed
\* to its transport was still in flight, the other is in the table
C17_Witness ==
    \E c, d, p \in Slots :
        /\ stream[c].phase = "OPEN" /\ stream[c].closeFired /\ ~InTable(c)
        /\ post[p].pc = "forwarded" /\ post[p].target = c
        /\ d # c /\ Live(d) /\ InTable(d)

\* ------------------------------------------------------------------------
\* C18: OPTIONS on the stream path or on the message path is a preflight
\* and is answered in the same step with 204, naming the methods GET, POST,
\* OPTIONS and the header content-type; no session is created, looked up
\* or removed and no handler is entered.
\* ------------------------------------------------------------------------
C18_PreflightTouchesNoSession ==
    /\ [](\A url \in {"/mcp", "/mcp/messages"} :
            Route("OPTIONS", url) = "preflight")
    /\ [][\A q \in Slots :
            (Answered(q) /\ plain'[q].method = "OPTIONS"
                         /\ plain'[q].url \in {"/mcp", "/mcp/messages"})
            => /\ plain'[q].status = 204
               /\ "Access-Control-Allow-Methods: GET, POST, OPTIONS"
                      \in plain'[q].headers
               /\ "Access-Control-Allow-Headers: content-type"
                      \in plain'[q].headers
               /\ sessions' = sessions
               /\ minted' = minted
               /\ stream' = stream
               /\ post' = post]_vars

\* a preflight on each of the two paths, answered while a session is open
C18_Witness ==
    \E q, r, c \in Slots :
        /\ plain[q].method = "OPTIONS" /\ plain[q].url = "/mcp"
        /\ plain[r].method = "OPTIONS" /\ plain[r].url = "/mcp/messages"
        /\ plain[q].status = 204 /\ plain[r].status = 204
        /\ InTable(c)

\* ------------------------------------------------------------------------
\* C19: a request with a path whose (method, path) is none of GET /mcp,
\* POST /mcp/messages, OPTIONS /mcp, OPTIONS /mcp/messages is routed to no
\* handler and answered with 404 "Not Found"; the table, the sessions and
\* the POSTs in progress are unchanged.
\* ------------------------------------------------------------------------
Routed(method, url) ==
    \/ method = "GET" /\ url = "/mcp"
    \/ method = "POST" /\ url = "/mcp/messages"
    \/ method = "OPTIONS" /\ url \in {"/mcp", "/mcp/messages"}

C19_UnroutedIs404 ==
    /\ [](\A rq \in Requests :
            (rq[2] # "" /\ ~Routed(rq[1], rq[2]))
            => Route(rq[1], rq[2]) = "not-found")
    /\ [][\A q \in Slots :
            (Answered(q) /\ plain'[q].url # ""
                         /\ ~Routed(plain'[q].method, plain'[q].url))
            => /\ plain'[q].status = 404
               /\ plain'[q].body = "Not Found"
               /\ sessions' = sessions
               /\ minted' = minted
               /\ stream' = stream
               /\ post' = post]_vars

\* POST on the stream path and OPTIONS on another path, both 404, while a
\* session is in the table
C19_Witness ==
    \E q, r \in Slots :
        /\ plain[q].method = "POST" /\ plain[q].url = "/mcp"
        /\ plain[r].method = "OPTIONS" /\ plain[r].url = "/other"
        /\ plain[q].status = 404 /\ plain[r].status = 404
        /\ DOMAIN sessions # {}

\* ------------------------------------------------------------------------
\* C15: a get of an id returns the record of the last set of that id, or
\* nothing when the id was deleted since or never set; sets, gets and
\* deletes of other ids do not change what it returns.
\* ------------------------------------------------------------------------
C15_GetReturnsLastPut ==
    /\ tableOp.name = "get" => tableOp.result = lastPut[tableOp.id]
    /\ \A id \in Ids : MapGet(sessions, id) = lastPut[id]

\* a get that found a record while another id holds another record and a
\* third holds none
C15_Witness ==
    /\ tableOp.name = "get" /\ tableOp.result # <<>>
    /\ \E id \in DOMAIN sessions :
          id # tableOp.id /\ <<sessions[id]>> # tableOp.result
    /\ \E id \in Ids : id \notin DOMAIN sessions

\* ------------------------------------------------------------------------
\* C16: deleting an id that is not in the table leaves the table as it
\* is, so a second delete of an id changes nothing after the first.
\* ------------------------------------------------------------------------
C16_DeleteIdempotent ==
    /\ \A id \in Ids :
          /\ id \notin DOMAIN sessions => MapDelete(sessions, id) = sessions
          /\ MapDelete(MapDelete(sessions, id), id) = MapDelete(sessions, id)
    /\ tableOp.name = "delete" => tableOp.id \notin DOMAIN sessions

\* a delete of an absent id was made and the other entries are there
C16_Witness ==
    /\ tableOp.name = "delete" /\ ~tableOp.existed
    /\ Cardinality(DOMAIN sessions) = 2

\* ------------------------------------------------------------------------
\* C20: show-todo invoked with message m through a POST carrying the id
\* of an open stream gives a result whose structured content has message
\* equal to m, for every string m, the empty one included.
\* ------------------------------------------------------------------------
C20_ShowTodoEchoesMessage ==
    (call # NoCall /\ ~call.absent) =>
        /\ call.ran
        /\ call.result.structuredContent.message = call.message
        /\ call.session = stream[post[call.post].target].sid

\* the scenario: the first stream got id "1", the POST carried it and the
\* message was "hi"
C20_Witness ==
    /\ call # NoCall /\ ~call.absent
    /\ call.session = "1" /\ stream[1].sid = "1"
    /\ post[call.post].param = <<"1">>
    /\ call.message = <<"h", "i">>
    /\ call.result.structuredContent.message = <<"h", "i">>

\* ------------------------------------------------------------------------
\* C21: show-todo invoked without the field message is answered with an
\* invalid-input error that names message, and the handler is not run.
\* ------------------------------------------------------------------------
C21_MissingMessageIsInvalid ==
    (call # NoCall /\ call.absent) =>
        /\ ~call.ran
        /\ call.result.isError
        /\ call.result.code = "InvalidParams"
        /\ "message" \in call.result.missing

\* the call {} and the call {userId: "u1"}, through the session "1"
C21_Witness ==
    /\ call # NoCall /\ call.absent /\ ~call.ran
    /\ call.session = "1"
    /\ call.result.missing = {"message"}

\* ------------------------------------------------------------------------
\* C23: after a failed handshake the session is out of the table, the
\* answer is 500 "Failed to establish SSE connection" unless response
\* headers were already sent, and neither the cleanup nor a close callback
\* fired for the same session afterwards has ended in an error.
\* ------------------------------------------------------------------------
C23_FailedOpenCleansUp ==
    \A c \in Slots :
        stream[c].phase = "FAILED"
        => /\ ~InTable(c)
           /\ \/ stream[c].status = 500
                 /\ stream[c].body = "Failed to establish SSE connection"
              \/ stream[c].status = 200 /\ stream[c].body = ""
           /\ ~stream[c].closeRejected

\* ------------------------------------------------------------------------
\* C24: in the step in which handlePostMessage hands a request to a
\* transport, the table holds under the requested id the session of that
\* transport, and the close callback of that session has not fired.
\* ------------------------------------------------------------------------
C24_HandedToPresentSession ==
    [][\A p \in Slots :
        (Taken(p) /\ post'[p].pc = "forwarded")
        => LET c == post'[p].target IN
           /\ c \in Slots
           /\ post'[p].param = <<stream[c].sid>>
           /\ stream[c].sid \in DOMAIN sessions
           /\ stream[c].sid \in DOMAIN sessions'
           /\ sessions'[stream[c].sid].transport = c
           /\ ~stream[c].closeFired
           /\ stream[c].phase # "FAILED"]_vars

\* a request is in the hands of the transport of a session in the table
\* while another session has been closed and removed
C24_Witness ==
    \E p, c, d \in Slots :
        /\ post[p].pc = "forwarded" /\ post[p].target = c /\ InTable(c)
        /\ d # c /\ stream[d].closeFired /\ ~InTable(d)

\* ------------------------------------------------------------------------
\* C25: a session is in the table while its handshake is under way, and a
\* POST with its id taken then is handed to its transport, not answered
\* with 404.
\* ------------------------------------------------------------------------
C25_FoundWhileOpening ==
    /\ [](\A c \in Slots : ConnState(c) = "OPENING" => InTable(c))
    /\ [][\A p, c \in Slots :
            (Taken(p) /\ ConnState(c) = "OPENING"
                      /\ post'[p].param = <<stream[c].sid>>)
            => /\ post'[p].pc = "forwarded"
               /\ post'[p].target = c
               /\ post'[p].status # 404]_vars

C25_Witness ==
    \E p, c \in Slots :
        /\ stream[c].phase = "OPENING" /\ ~stream[c].closeFired
        /\ post[p].pc = "forwarded" /\ post[p].target = c

\* ------------------------------------------------------------------------
\* C26: a POST whose sessionId parameter is present and empty gets 400
\* with the body naming the missing parameter, never 404; the table is
\* not looked up and nothing is forwarded.
\* ------------------------------------------------------------------------
C26_EmptyParameterIs400 ==
    [][\A p \in Slots :
        (Taken(p) /\ post'[p].param = <<"">>)
        => /\ post'[p].pc = "done"
           /\ post'[p].status = 400
           /\ post'[p].body = "Missing sessionId query parameter"
           /\ ~post'[p].looked
           /\ post'[p].target = 0
           /\ sessions' = sessions]_vars

C26_Witness ==
    \E p \in Slots :
        /\ post[p].pc = "done" /\ post[p].param = <<"">>
        /\ post[p].status = 400 /\ ~post[p].looked
        /\ DOMAIN sessions # {}

\* ------------------------------------------------------------------------
\* C22: the port is the number that the value of PORT converts to; when
\* PORT is unset, or converts to NaN or to an infinity, the port is 8000.
\* ------------------------------------------------------------------------
C22_PortFromEnv ==
    port # <<>> =>
        /\ env = <<>> => port[1] = [kind |-> "finite", val |-> 8000]
        /\ env # <<>> =>
              LET n == StringToNumber(env[1]) IN
              IF n.kind = "finite" THEN port[1] = n
              ELSE port[1] = [kind |-> "finite", val |-> 8000]
        /\ env = << <<"8", "0">> >> => port[1].val = 80
        /\ env = << <<" ", "8", " ">> >> => port[1].val = 8
        /\ env = << <<"0", "x", "8">> >> => port[1].val = 8
        /\ env = << <<"-", "8">> >> => port[1].val = 0 - 8
        /\ env = << <<>> >> => port[1].val = 0
        /\ env = << <<"x">> >> => port[1].val = 8000
        /\ env = << <<"8", "x">> >> => port[1].val = 8000
        /\ env = << <<"Infinity">> >> => port[1].val = 8000
        /\ env = << <<"-", "Infinity">> >> => port[1].val = 8000
        /\ port[1].kind = "finite"

\* PORT=808
C22_Witness ==
    /\ env = << <<"8", "0", "8">> >>
    /\ port = << [kind |-> "finite", val |-> 808] >>

\* ------------------------------------------------------------------------
\* C27: isLoading of the useCallTool hook is true exactly while at least
\* one invocation of callTool is in flight; an invocation that threw for
\* want of the host function counts for nothing.
\* ------------------------------------------------------------------------
C27_LoadingWhileInFlight ==
    isLoading = (\E k \in Calls : calls[k] = "inflight")

====
